---- MODULE Spec2Model ----
(***************************************************************************)
(* Policy engine configuration of gemini-cli: the tiered rule loader, the  *)
(* priority compiler, the rules synthesized from settings, the interactive *)
(* "always allow" updater and the engine that evaluates tool calls.        *)
(*                                                                         *)
(* Priorities are rationals with three decimals in the program             *)
(* (tier + declared/1000, 2.95, 85 ...).  They are kept here as integers   *)
(* counted in thousandths: 2.95 is 2950, 85 is 85000, 3 + 5/1000 is 3005.  *)
(* Declared priorities are whole numbers, as in every policy file of the   *)
(* repository.                                                             *)
(***************************************************************************)
EXTENDS Integers, Sequences, FiniteSets, TLC

VARIABLES
    paths,            \* the three policy directory locations of the host
    fs,               \* file system: directory path -> its policy files
    settings,         \* the merged user settings
    approvalMode,     \* approval mode that was active at construction
    rules,            \* PolicyEngine: the compiled rule set, in insertion order
    defaultDecision,  \* PolicyEngine: decision when no rule matches
    bus,              \* MessageBus: UPDATE_POLICY messages in flight
    nPublished,       \* number of UPDATE_POLICY messages published so far
    request,          \* the last request given to evaluate (NoRequest: none yet)
    decision,         \* the decision evaluate returned for it
    call,             \* an application of a pure function: inputs and result
    lastChar,         \* textOutput: last character written to stdout
    stdout            \* the strings given to process.stdout.write, in order

vars == <<paths, fs, settings, approvalMode, rules, defaultDecision,
          bus, nPublished, request, decision, call, lastChar, stdout>>

----------------------------------------------------------------------------
(* Bounds of the model *)

MaxRules == 2      \* rules in the set at construction
MaxUpdates == 1    \* UPDATE_POLICY messages published in one run
MaxInFlight == 2   \* evaluate calls in flight at one time
MaxDeliveries == 3 \* UPDATE_POLICY messages of a run that repeats them
MaxWrites == 3     \* calls of textOutput in one run

----------------------------------------------------------------------------
(* PolicyDecision, priorities *)

ALLOW == "allow"
DENY == "deny"
ASK_USER == "ask_user"
PolicyDecision == {ALLOW, DENY, ASK_USER}

Scale == 1000
Thousandths(whole, frac) == whole * Scale + frac

MCP_ALLOWED_PRIORITY == 85
MCP_TRUSTED_PRIORITY == 90
TOOL_ALLOWED_PRIORITY == 100
MCP_EXCLUDED_PRIORITY == 195
TOOL_EXCLUDED_PRIORITY == 200
ALWAYS_ALLOW_PRIORITY == 2950

----------------------------------------------------------------------------
(* Strings and JavaScript values *)

Has(r, f) == f \in DOMAIN r

Truthy(s) == s /= ""

startsWith(s, p) == Len(s) >= Len(p) /\ SubSeq(s, 1, Len(p)) = p

endsWith(s, p) ==
    Len(s) >= Len(p) /\ SubSeq(s, Len(s) - Len(p) + 1, Len(s)) = p

includes(s, p) ==
    \E i \in 1..(Len(s) - Len(p) + 1) : SubSeq(s, i, i + Len(p) - 1) = p

SeqIncludes(seq, x) == \E i \in 1..Len(seq) : seq[i] = x

RECURSIVE FlatMap(_, _)
FlatMap(F(_), seq) ==
    IF seq = <<>> THEN <<>> ELSE F(Head(seq)) \o FlatMap(F, Tail(seq))

Str(s) == [type |-> "string", v |-> s]
Arr(a) == [type |-> "array", v |-> a]

(* new RegExp(source): the sources of the model are literal texts, which   *)
(* match a string that contains them; "(" is a source that does not        *)
(* compile.                                                                *)
RegExpThrows(source) == source = "("
RegExp(source) == [source |-> source]
RegExpTest(re, text) == includes(text, re.source)

----------------------------------------------------------------------------
(* Rule Source Loader and Priority Compiler *)

Undefined == [type |-> "undefined"]

Reverse(seq) == [i \in 1..Len(seq) |-> seq[Len(seq) + 1 - i]]

getPolicyDirectories == Reverse(<<paths.default, paths.user, paths.admin>>)

(* path.resolve of an absolute path: the trailing separator is dropped *)
pathResolve(p) ==
    IF Len(p) > 1 /\ endsWith(p, "/") THEN SubSeq(p, 1, Len(p) - 1) ELSE p

getPolicyTier_adminFirst(dir) ==
    IF pathResolve(dir) = pathResolve(paths.admin) THEN 3
    ELSE IF pathResolve(dir) = pathResolve(paths.user) THEN 2
    ELSE 1

(* lines 436-457 *)
getPolicyTier(dir) ==
    LET normalizedDir == pathResolve(dir)
        normalizedDefault == pathResolve(paths.default)
        normalizedUser == pathResolve(paths.user)
        normalizedAdmin == pathResolve(paths.admin)
    IN  IF normalizedDir = normalizedDefault THEN 1
        ELSE IF normalizedDir = normalizedUser THEN 2
        ELSE IF normalizedDir = normalizedAdmin THEN 3
        ELSE 1

transformPriority_hundredths(priority, tier) == tier * Scale + priority * 10

transformPriority(priority, tier) == tier * Scale + priority

PolicyRuleSchema(rule) ==
    /\ Has(rule, "decision") /\ rule.decision \in PolicyDecision
    /\ Has(rule, "priority") /\ rule.priority \in Int

PolicyFileSchema(parsed) ==
    /\ Has(parsed, "rule")
    /\ \A i \in 1..Len(parsed.rule) : PolicyRuleSchema(parsed.rule[i])

modeFilter_emptyDrops(rule, mode) ==
    IF ~Has(rule, "modes") THEN TRUE ELSE SeqIncludes(rule.modes, mode)

(* the filter of lines 505-512 *)
modeFilter(rule, mode) ==
    IF ~Has(rule, "modes") \/ Len(rule.modes) = 0
    THEN TRUE
    ELSE SeqIncludes(rule.modes, mode)

toolNamesOf_firstOnly(rule) ==
    IF Has(rule, "toolName")
       /\ (rule.toolName.type = "array" \/ Truthy(rule.toolName.v))
    THEN IF rule.toolName.type = "array"
         THEN IF rule.toolName.v = <<>> THEN <<>>
              ELSE <<Str(rule.toolName.v[1])>>
         ELSE <<rule.toolName>>
    ELSE <<Undefined>>

toolNamesOf_emptyAsAbsent(rule) ==
    IF Has(rule, "toolName")
       /\ IF rule.toolName.type = "array" THEN rule.toolName.v /= <<>>
          ELSE Truthy(rule.toolName.v)
    THEN IF rule.toolName.type = "array"
         THEN [i \in 1..Len(rule.toolName.v) |-> Str(rule.toolName.v[i])]
         ELSE <<rule.toolName>>
    ELSE <<Undefined>>

(* lines 515-519: toolName normalized to an array *)
toolNamesOf(rule) ==
    IF Has(rule, "toolName")
       /\ (rule.toolName.type = "array" \/ Truthy(rule.toolName.v))
    THEN IF rule.toolName.type = "array"
         THEN [i \in 1..Len(rule.toolName.v) |-> Str(rule.toolName.v[i])]
         ELSE <<rule.toolName>>
    ELSE <<Undefined>>

CompositeName(serverName, toolName) == serverName \o "__" \o toolName

ServerWildcard_noSeparator(serverName) == serverName \o "*"

ServerWildcard(serverName) == serverName \o "__*"

effectiveToolName_ignoresMcp(rule, toolName) == toolName

(* lines 524-534 *)
effectiveToolName(rule, toolName) ==
    LET hasMcp == Has(rule, "mcpName") /\ Truthy(rule.mcpName)
        hasTool == toolName /= Undefined /\ Truthy(toolName.v)
    IN  IF hasMcp /\ hasTool THEN Str(CompositeName(rule.mcpName, toolName.v))
        ELSE IF hasMcp THEN Str(ServerWildcard(rule.mcpName))
        ELSE toolName

hasArgsPattern(rule) == Has(rule, "argsPattern") /\ Truthy(rule.argsPattern)

(* lines 536-544: one compiled rule; an undefined toolName is an absent field *)
policyRule(rule, toolName, tier) ==
    LET name == effectiveToolName(rule, toolName)
        base == [decision |-> rule.decision,
                 priority |-> transformPriority(rule.priority, tier)]
        named == IF name = Undefined THEN base
                 ELSE [toolName |-> name.v] @@ base
    IN  IF hasArgsPattern(rule)
        THEN [argsPattern |-> RegExp(rule.argsPattern)] @@ named
        ELSE named

(* lines 513-546 for one entry *)
entryRules(rule, tier) ==
    LET names == toolNamesOf(rule)
    IN  [i \in 1..Len(names) |-> policyRule(rule, names[i], tier)]

(* lines 489-555 for one file: a read, parse or validation failure and an  *)
(* exception of new RegExp all leave the rules without this file's rules   *)
loadFile(file, tier, mode) ==
    IF Has(file.content, "error") \/ ~PolicyFileSchema(file.content)
    THEN <<>>
    ELSE LET kept == SelectSeq(file.content.rule,
                               LAMBDA r : modeFilter(r, mode))
             thrown == \E i \in 1..Len(kept) :
                          /\ Len(toolNamesOf(kept[i])) > 0
                          /\ hasArgsPattern(kept[i])
                          /\ RegExpThrows(kept[i].argsPattern)
             RulesOf(r) == entryRules(r, tier)
         IN  IF thrown THEN <<>> ELSE FlatMap(RulesOf, kept)

loadDirOf_stopAtBadFile(fsys, dir, mode) ==
    IF Has(fsys[dir], "error")
    THEN <<>>
    ELSE LET filesToLoad ==
                 SelectSeq(fsys[dir].files,
                           LAMBDA f : f.isFile /\ endsWith(f.name, ".toml"))
             RulesOf(f) == loadFile(f, getPolicyTier(dir), mode)
         IN  IF \E k \in 1..Len(filesToLoad) :
                   \/ Has(filesToLoad[k].content, "error")
                   \/ ~PolicyFileSchema(filesToLoad[k].content)
             THEN <<>>
             ELSE FlatMap(RulesOf, filesToLoad)

(* lines 469-556 for one directory of the file system fsys *)
loadDirOf(fsys, dir, mode) ==
    IF Has(fsys[dir], "error")
    THEN <<>>
    ELSE LET filesToLoad ==
                 SelectSeq(fsys[dir].files,
                           LAMBDA f : f.isFile /\ endsWith(f.name, ".toml"))
             RulesOf(f) == loadFile(f, getPolicyTier(dir), mode)
         IN  FlatMap(RulesOf, filesToLoad)

loadDir(dir, mode) == loadDirOf(fs, dir, mode)

loadPoliciesFromConfig(mode, policyDirs) ==
    LET RulesOf(dir) == loadDir(dir, mode)
    IN  FlatMap(RulesOf, policyDirs)

----------------------------------------------------------------------------
(* Settings Rule Synthesizer *)

settingsRule(toolName, dec, priority) ==
    [toolName |-> toolName, decision |-> dec,
     priority |-> Thousandths(priority, 0)]

(* lines 601-609 *)
mcpAllowedRules(s) ==
    [i \in 1..Len(s.mcp.allowed) |->
        settingsRule(ServerWildcard(s.mcp.allowed[i]), ALLOW,
                     MCP_ALLOWED_PRIORITY)]

mcpTrustedRules_aboveExclusions(s) ==
    LET trusted == SelectSeq(s.mcpServers, LAMBDA e : e.config.trust)
    IN  [i \in 1..Len(trusted) |->
            settingsRule(ServerWildcard(trusted[i].name), ALLOW, 900)]

(* lines 613-627 *)
mcpTrustedRules(s) ==
    LET trusted == SelectSeq(s.mcpServers, LAMBDA e : e.config.trust)
    IN  [i \in 1..Len(trusted) |->
            settingsRule(ServerWildcard(trusted[i].name), ALLOW,
                         MCP_TRUSTED_PRIORITY)]

(* lines 631-639 *)
toolsAllowedRules(s) ==
    [i \in 1..Len(s.tools.allowed) |->
        settingsRule(s.tools.allowed[i], ALLOW, TOOL_ALLOWED_PRIORITY)]

toolsExcludeRules_belowAllowed(s) ==
    [i \in 1..Len(s.tools.exclude) |->
        settingsRule(s.tools.exclude[i], DENY, 20)]

(* lines 643-651 *)
toolsExcludeRules(s) ==
    [i \in 1..Len(s.tools.exclude) |->
        settingsRule(s.tools.exclude[i], DENY, TOOL_EXCLUDED_PRIORITY)]

(* lines 655-663 *)
mcpExcludedRules(s) ==
    [i \in 1..Len(s.mcp.excluded) |->
        settingsRule(ServerWildcard(s.mcp.excluded[i]), DENY,
                     MCP_EXCLUDED_PRIORITY)]

settingsRules(s) ==
    mcpAllowedRules(s) \o mcpTrustedRules(s) \o toolsAllowedRules(s)
        \o toolsExcludeRules(s) \o mcpExcludedRules(s)

createPolicyEngineConfig_allowByDefault(s, mode) ==
    [rules |-> loadPoliciesFromConfig(mode, getPolicyDirectories)
                   \o settingsRules(s),
     defaultDecision |-> ALLOW]

createPolicyEngineConfig_noDefault(s, mode) ==
    [rules |-> loadPoliciesFromConfig(mode, getPolicyDirectories)
                   \o settingsRules(s),
     defaultDecision |-> "undefined"]

createPolicyEngineConfig(s, mode) ==
    [rules |-> loadPoliciesFromConfig(mode, getPolicyDirectories)
                   \o settingsRules(s),
     defaultDecision |-> ASK_USER]

----------------------------------------------------------------------------
(* Update Channel *)

createPolicyUpdater_defaultTier(message) ==
    LET base == [decision |-> ALLOW, priority |-> 1950]
    IN  IF Has(message, "toolName")
        THEN [toolName |-> message.toolName] @@ base
        ELSE base

createPolicyUpdater_askUser(message) ==
    LET base == [decision |-> ASK_USER, priority |-> ALWAYS_ALLOW_PRIORITY]
    IN  IF Has(message, "toolName")
        THEN [toolName |-> message.toolName] @@ base
        ELSE base

createPolicyUpdater_noToolName(message) ==
    [decision |-> ALLOW, priority |-> ALWAYS_ALLOW_PRIORITY]

(* the rule the subscriber of createPolicyUpdater hands to addRule *)
createPolicyUpdater(message) ==
    LET base == [decision |-> ALLOW, priority |-> ALWAYS_ALLOW_PRIORITY]
    IN  IF Has(message, "toolName")
        THEN [toolName |-> message.toolName] @@ base
        ELSE base

----------------------------------------------------------------------------
(* Policy Engine and Pattern Matcher *)

WildcardMarker == "*"

(* matches(identity, pattern) *)
matches(identity, pattern) ==
    \/ identity = pattern
    \/ /\ endsWith(pattern, WildcardMarker)
       /\ startsWith(identity,
                     SubSeq(pattern, 1, Len(pattern) - Len(WildcardMarker)))

(* matchesArgs(argsCanonicalForm, compiledPattern), absent pattern included *)
matchesArgs(args, rule) ==
    ~Has(rule, "argsPattern") \/ RegExpTest(rule.argsPattern, args)

(* the identities a request is tried under: the bare name and, with an     *)
(* mcpServerName, the composite form                                       *)
identities(req) ==
    IF Has(req, "mcpServerName")
    THEN {req.toolName, CompositeName(req.mcpServerName, req.toolName)}
    ELSE {req.toolName}

(* steps 1 and 2 of evaluate; a rule without applicableModes applies in    *)
(* every mode, a rule without a tool-name pattern to every tool            *)
ruleMatches(rule, req) ==
    /\ \/ ~Has(rule, "modes")
       \/ Len(rule.modes) = 0
       \/ SeqIncludes(rule.modes, req.currentMode)
    /\ \/ ~Has(rule, "toolName")
       \/ \E id \in identities(req) : matches(id, rule.toolName)
    /\ matchesArgs(req.args, rule)

(* rank of a decision on an exact tie: the more restrictive one first *)
Restrictiveness(dec) ==
    CASE dec = DENY -> 2
      [] dec = ASK_USER -> 1
      [] dec = ALLOW -> 0

outranks_lowestFirst(a, b) == a.priority < b.priority

outranks_insertionOrder(a, b) == a.priority > b.priority

outranks_laterWins(a, b) == a.priority >= b.priority

(* rule a takes precedence over rule b *)
outranks(a, b) ==
    \/ a.priority > b.priority
    \/ /\ a.priority = b.priority
       /\ Restrictiveness(a.decision) > Restrictiveness(b.decision)

(* steps 3 to 5 of evaluate: one pass over the rule set that keeps the     *)
(* matching rule that outranks the ones seen so far                        *)
RECURSIVE scan(_, _, _, _)
scan(rs, req, i, best) ==
    IF i > Len(rs) THEN best
    ELSE IF ruleMatches(rs[i], req)
            /\ (best = Undefined \/ outranks(rs[i], best))
         THEN scan(rs, req, i + 1, rs[i])
         ELSE scan(rs, req, i + 1, best)

evaluate(rs, dflt, req) ==
    LET best == scan(rs, req, 1, Undefined)
    IN  IF best = Undefined THEN dflt ELSE best.decision

addRule_replaceLast(rs, rule) ==
    IF rs = <<>> THEN <<rule>> ELSE [rs EXCEPT ![Len(rs)] = rule]

addRule_prepend(rs, rule) == <<rule>> \o rs

addRule_sorted(rs, rule) ==
    LET before == SelectSeq(rs, LAMBDA r : r.priority >= rule.priority)
        after == SelectSeq(rs, LAMBDA r : r.priority < rule.priority)
    IN  before \o <<rule>> \o after

addRule_repeatDenies(rs, rule) ==
    IF \E i \in 1..Len(rs) : rs[i] = rule
    THEN Append(rs, [rule EXCEPT !.decision = DENY])
    ELSE Append(rs, rule)

addRule(rs, rule) == Append(rs, rule)

----------------------------------------------------------------------------
(* Inputs of the model *)

DefaultDir == "/bundle/policies"
UserDir == "/home/u/.gemini/policies"
AdminDir == "/etc/gemini-cli/policies"

Modes == {"default", "autoEdit", "yolo"}

(* declared priorities of the entries of each directory: 0 is the lowest   *)
(* of a band, 950 compiles to 2.95 in the user directory, 1000 in the      *)
(* default directory to 2.000, the bottom of the user band                 *)
AdminPriorities == {0}
UserPriorities == {0, 950}
DefaultPriorities == {1000}

ToolEntries(priorities) ==
    {[toolName |-> Str("replace"), decision |-> d, priority |-> p] :
        d \in PolicyDecision, p \in priorities}

AdminEntries == ToolEntries(AdminPriorities)

UserEntries ==
    ToolEntries(UserPriorities)
    \cup {[mcpName |-> "github", decision |-> ALLOW, priority |-> 5]}

DefaultEntries ==
    ToolEntries(DefaultPriorities)
    \cup {[toolName |-> Str("replace"), argsPattern |-> "rm",
           decision |-> DENY, priority |-> 5],
          [decision |-> ALLOW, priority |-> 999, modes |-> <<"yolo">>],
          [decision |-> ASK_USER, priority |-> 10,
           modes |-> <<"default", "autoEdit">>]}

PolicyFile(name, entries) ==
    [name |-> name, isFile |-> TRUE, content |-> [rule |-> entries]]

NoDir == [error |-> "ENOENT"]

DirChoices(entries) ==
    {NoDir} \cup
    {[files |-> <<PolicyFile("policy.toml", <<e>>)>>] : e \in entries}

FsChoices ==
    {[d \in {DefaultDir, UserDir, AdminDir} |->
        CASE d = DefaultDir -> dd
          [] d = UserDir -> ud
          [] d = AdminDir -> ad] :
        dd \in DirChoices(DefaultEntries), ud \in DirChoices(UserEntries),
        ad \in DirChoices(AdminEntries)}

SettingsChoices ==
    {[tools |-> [allowed |-> ta, exclude |-> te],
      mcp |-> [allowed |-> ma, excluded |-> me],
      mcpServers |-> ms] :
        ta \in {<<>>, <<"replace">>},
        te \in {<<>>, <<"replace">>, <<"github__replace">>},
        ma \in {<<>>, <<"github">>},
        me \in {<<>>, <<"github">>},
        ms \in {<<>>} \cup
               {<<[name |-> "github", config |-> [trust |-> t]]>> :
                   t \in BOOLEAN}}

NoSettings ==
    [tools |-> [allowed |-> <<>>, exclude |-> <<>>],
     mcp |-> [allowed |-> <<>>, excluded |-> <<>>],
     mcpServers |-> <<>>]

UPDATE_POLICY == "update-policy"

Messages ==
    {[type |-> UPDATE_POLICY, toolName |-> t] :
        t \in {"replace", "github__replace"}}

Requests ==
    {[toolName |-> "replace", args |-> a, currentMode |-> "default"] :
        a \in {"rm -rf", "ls"}}
    \cup
    {[toolName |-> "replace", mcpServerName |-> "github",
      args |-> a, currentMode |-> "default"] :
        a \in {"rm -rf", "ls"}}

NoRequest == [type |-> "none"]
NoDecision == "none"
NoCall == [fn |-> "none"]

----------------------------------------------------------------------------
(* The engine after construction, and its operations *)

Init ==
    /\ lastChar = "\n"
    /\ stdout = <<>>
    /\ paths = [default |-> DefaultDir, user |-> UserDir, admin |-> AdminDir]
    /\ fs \in FsChoices
    /\ settings \in SettingsChoices
    /\ approvalMode = "default"
    /\ Len(createPolicyEngineConfig(settings, approvalMode).rules) <= MaxRules
    /\ rules = createPolicyEngineConfig(settings, approvalMode).rules
    /\ defaultDecision =
           createPolicyEngineConfig(settings, approvalMode).defaultDecision
    /\ bus = <<>>
    /\ nPublished = 0
    /\ request = NoRequest
    /\ decision = NoDecision
    /\ call = NoCall

(* the interactive layer publishes an "always allow" message *)
publish(message) ==
    /\ nPublished < MaxUpdates
    /\ bus' = Append(bus, message)
    /\ nPublished' = nPublished + 1
    /\ UNCHANGED <<lastChar, stdout,
                   paths, fs, settings, approvalMode, rules, defaultDecision,
                   request, decision, call>>

(* the subscriber of createPolicyUpdater handles the oldest message *)
onUpdatePolicy ==
    /\ bus /= <<>>
    /\ rules' = addRule(rules, createPolicyUpdater(Head(bus)))
    /\ bus' = Tail(bus)
    /\ UNCHANGED <<lastChar, stdout,
                   paths, fs, settings, approvalMode, defaultDecision,
                   nPublished, request, decision, call>>

(* the host asks for a decision *)
Evaluate(req) ==
    /\ request' = req
    /\ decision' = evaluate(rules, defaultDecision, req)
    /\ UNCHANGED <<lastChar, stdout,
                   paths, fs, settings, approvalMode, rules, defaultDecision,
                   bus, nPublished, call>>

Next ==
    \/ \E message \in Messages : publish(message)
    \/ onUpdatePolicy
    \/ \E req \in Requests : Evaluate(req)

Spec == Init /\ [][Next]_vars

(* The engine constructed from tier directories alone, whose rules can tie *)
(* with one another and with the always-allow rules.                       *)
InitTie ==
    /\ lastChar = "\n"
    /\ stdout = <<>>
    /\ paths = [default |-> DefaultDir, user |-> UserDir, admin |-> AdminDir]
    /\ fs \in FsChoices
    /\ settings = NoSettings
    /\ approvalMode = "default"
    /\ Len(createPolicyEngineConfig(settings, approvalMode).rules) <= MaxRules
    /\ rules = createPolicyEngineConfig(settings, approvalMode).rules
    /\ defaultDecision =
           createPolicyEngineConfig(settings, approvalMode).defaultDecision
    /\ bus = <<>>
    /\ nPublished = 0
    /\ request = NoRequest
    /\ decision = NoDecision
    /\ call = NoCall

SpecTie == InitTie /\ [][Next]_vars

----------------------------------------------------------------------------
(* The engine constructed under any approval mode and asked under any      *)
(* current mode: the mode of a request may differ from the mode that was   *)
(* active when the rule set was loaded.                                    *)

ModeRequests ==
    {[toolName |-> "replace", args |-> a, currentMode |-> m] :
        a \in {"rm -rf", "ls"}, m \in Modes}

InitMode ==
    /\ lastChar = "\n"
    /\ stdout = <<>>
    /\ paths = [default |-> DefaultDir, user |-> UserDir, admin |-> AdminDir]
    /\ fs \in {f \in FsChoices : f[AdminDir] = NoDir}
    /\ settings = NoSettings
    /\ approvalMode \in Modes
    /\ Len(createPolicyEngineConfig(settings, approvalMode).rules) <= MaxRules
    /\ rules = createPolicyEngineConfig(settings, approvalMode).rules
    /\ defaultDecision =
           createPolicyEngineConfig(settings, approvalMode).defaultDecision
    /\ bus = <<>>
    /\ nPublished = 0
    /\ request = NoRequest
    /\ decision = NoDecision
    /\ call = NoCall

NextMode ==
    \/ \E message \in Messages : publish(message)
    \/ onUpdatePolicy
    \/ \E req \in ModeRequests : Evaluate(req)

SpecMode == InitMode /\ [][NextMode]_vars

----------------------------------------------------------------------------
(* The engine consulted by several callers at once: an evaluate call is    *)
(* issued, reads the rule set of that moment as one snapshot, and returns  *)
(* later; the update channel appends in between.                           *)

ConcurrentRequests ==
    {[toolName |-> "replace", args |-> "ls", currentMode |-> "default"],
     [toolName |-> "replace", mcpServerName |-> "github", args |-> "ls",
      currentMode |-> "default"]}

InitConcurrent ==
    /\ lastChar = "\n"
    /\ stdout = <<>>
    /\ paths = [default |-> DefaultDir, user |-> UserDir, admin |-> AdminDir]
    /\ \E ud \in DirChoices(UserEntries) :
          fs = [d \in {DefaultDir, UserDir, AdminDir} |->
                   IF d = UserDir THEN ud ELSE NoDir]
    /\ settings = NoSettings
    /\ approvalMode = "default"
    /\ rules = createPolicyEngineConfig(settings, approvalMode).rules
    /\ defaultDecision =
           createPolicyEngineConfig(settings, approvalMode).defaultDecision
    /\ bus = <<>>
    /\ nPublished = 0
    /\ request = NoRequest
    /\ decision = NoDecision
    /\ call = [fn |-> "evaluate", inFlight |-> {}]

(* a caller issues evaluate(req): the call reads the current rule set;     *)
(* added counts the appends that had returned by then                      *)
issueEvaluate(req) ==
    /\ Cardinality(call.inFlight) < MaxInFlight
    /\ call' = [call EXCEPT !.inFlight =
                    @ \cup {[request |-> req, seen |-> rules,
                             added |-> nPublished - Len(bus)]}]
    /\ UNCHANGED <<lastChar, stdout,
                   paths, fs, settings, approvalMode, rules, defaultDecision,
                   bus, nPublished, request, decision>>

(* an evaluate call in flight returns its decision *)
returnEvaluate ==
    \E e \in call.inFlight :
        /\ request' = e.request
        /\ decision' = evaluate(e.seen, defaultDecision, e.request)
        /\ call' = [call EXCEPT !.inFlight = @ \ {e}]
        /\ UNCHANGED <<lastChar, stdout,
                       paths, fs, settings, approvalMode, rules,
                       defaultDecision, bus, nPublished>>

NextConcurrent ==
    \/ \E message \in Messages : publish(message)
    \/ onUpdatePolicy
    \/ \E req \in ConcurrentRequests : issueEvaluate(req)
    \/ returnEvaluate

SpecConcurrent == InitConcurrent /\ [][NextConcurrent]_vars

----------------------------------------------------------------------------
(* The update channel fed with messages of any shape: a message that names *)
(* a tool, one whose toolName is empty and one that has none.              *)

InjectMessages ==
    Messages \cup {[type |-> UPDATE_POLICY, toolName |-> ""],
                   [type |-> UPDATE_POLICY]}

NextInject ==
    \/ \E message \in InjectMessages : publish(message)
    \/ onUpdatePolicy
    \/ \E req \in Requests : Evaluate(req)

SpecInject == InitTie /\ [][NextInject]_vars

----------------------------------------------------------------------------
(* Construction in steps.  createPolicyEngineConfig is asynchronous: it    *)
(* awaits the reading of each directory, collects the rules in a local     *)
(* list, pushes the rules of the settings and returns; the engine exists   *)
(* once it has returned.  A request may arrive at any moment.              *)

NOT_READY == "not_ready"

GateSettings ==
    {NoSettings,
     [NoSettings EXCEPT !.tools.exclude = <<"replace">>],
     [NoSettings EXCEPT !.tools.allowed = <<"replace">>]}

publishedRules_incremental(c) == c.acc

(* the rules the caller of createPolicyEngineConfig holds: none until the  *)
(* function has returned, its local list afterwards                        *)
publishedRules(c) == IF c.state = "ready" THEN c.acc ELSE <<>>

InitGate ==
    /\ lastChar = "\n"
    /\ stdout = <<>>
    /\ paths = [default |-> DefaultDir, user |-> UserDir, admin |-> AdminDir]
    /\ fs \in FsChoices
    /\ settings \in GateSettings
    /\ approvalMode = "default"
    /\ rules = <<>>
    /\ defaultDecision = NoDecision
    /\ bus = <<>>
    /\ nPublished = 0
    /\ request = NoRequest
    /\ decision = NoDecision
    /\ call = [fn |-> "createPolicyEngineConfig", state |-> "loading",
               dirs |-> getPolicyDirectories, acc |-> <<>>]

(* one turn of the loop over policyDirs *)
loadNextDir ==
    /\ call.state = "loading"
    /\ call.dirs /= <<>>
    /\ call' = [call EXCEPT
                    !.dirs = Tail(@),
                    !.acc = @ \o loadDir(Head(call.dirs), approvalMode)]
    /\ rules' = publishedRules(call')
    /\ UNCHANGED <<lastChar, stdout,
                   paths, fs, settings, approvalMode, defaultDecision, bus,
                   nPublished, request, decision>>

(* the pushes of the settings rules and the return *)
returnConfig ==
    /\ call.state = "loading"
    /\ call.dirs = <<>>
    /\ call' = [call EXCEPT !.state = "ready",
                            !.acc = @ \o settingsRules(settings)]
    /\ rules' = publishedRules(call')
    /\ defaultDecision' = ASK_USER
    /\ UNCHANGED <<lastChar, stdout,
                   paths, fs, settings, approvalMode, bus, nPublished,
                   request, decision>>

(* the load is given up before it has returned *)
abortLoad ==
    /\ call.state = "loading"
    /\ call' = [call EXCEPT !.state = "aborted"]
    /\ rules' = publishedRules(call')
    /\ UNCHANGED <<lastChar, stdout,
                   paths, fs, settings, approvalMode, defaultDecision, bus,
                   nPublished, request, decision>>

(* a request that arrives while there is no engine is turned away *)
requestBeforeReady(req) ==
    /\ call.state /= "ready"
    /\ request' = req
    /\ decision' = NOT_READY
    /\ UNCHANGED <<lastChar, stdout,
                   paths, fs, settings, approvalMode, rules, defaultDecision,
                   bus, nPublished, call>>

NextGate ==
    \/ loadNextDir
    \/ returnConfig
    \/ abortLoad
    \/ \E req \in Requests : requestBeforeReady(req)
    \/ call.state = "ready" /\ \E message \in Messages : publish(message)
    \/ call.state = "ready" /\ onUpdatePolicy
    \/ call.state = "ready" /\ \E req \in Requests : Evaluate(req)

SpecGate == InitGate /\ [][NextGate]_vars

----------------------------------------------------------------------------
(* createPolicyEngineConfig applied to directories and files that fail:    *)
(* a directory that is missing or unreadable, a file that cannot be read,  *)
(* that is not TOML, or whose content the schema rejects, next to          *)
(* directories and files that load.                                        *)

Unreadable == [error |-> "EACCES"]

GoodFile(name, entry) == PolicyFile(name, <<entry>>)

FailEntries ==
    {[toolName |-> Str("replace"), decision |-> ALLOW, priority |-> 0],
     [toolName |-> Str("write_file"), decision |-> DENY, priority |-> 1]}

(* files that contribute no rule: unreadable, not TOML, a rule without     *)
(* decision, no rule array at all                                          *)
FailingFiles ==
    {[name |-> "gone.toml", isFile |-> TRUE, content |-> [error |-> "EACCES"]],
     [name |-> "broken.toml", isFile |-> TRUE,
      content |-> [error |-> "TomlError"]],
     [name |-> "nodecision.toml", isFile |-> TRUE,
      content |-> [rule |-> <<[toolName |-> Str("replace"),
                               priority |-> 0]>>]],
     [name |-> "norule.toml", isFile |-> TRUE, content |-> [title |-> "x"]]}

FailFiles == FailingFiles \cup {GoodFile("ok.toml", e) : e \in FailEntries}

FailUserDirs ==
    {NoDir, Unreadable}
    \cup {[files |-> <<f>>] : f \in FailFiles}
    \cup {[files |-> <<f, g>>] : f \in FailFiles, g \in FailFiles}

InitFail ==
    /\ lastChar = "\n"
    /\ stdout = <<>>
    /\ paths = [default |-> DefaultDir, user |-> UserDir, admin |-> AdminDir]
    /\ \E ad \in {NoDir, Unreadable,
                   [files |-> <<GoodFile("admin.toml",
                        [toolName |-> Str("replace"), decision |-> DENY,
                         priority |-> 5])>>]},
          ud \in FailUserDirs,
          dd \in {NoDir,
                   [files |-> <<GoodFile("default.toml",
                        [toolName |-> Str("replace"), decision |-> ASK_USER,
                         priority |-> 10])>>],
                   [files |-> <<[name |-> "broken.toml", isFile |-> TRUE,
                                 content |-> [error |-> "TomlError"]]>>]} :
          fs = [d \in {DefaultDir, UserDir, AdminDir} |->
                   CASE d = DefaultDir -> dd
                     [] d = UserDir -> ud
                     [] d = AdminDir -> ad]
    /\ settings \in {NoSettings,
                      [NoSettings EXCEPT !.tools.exclude = <<"replace">>]}
    /\ approvalMode = "default"
    /\ rules = <<>>
    /\ defaultDecision = ASK_USER
    /\ bus = <<>>
    /\ nPublished = 0
    /\ request = NoRequest
    /\ decision = NoDecision
    /\ call = [fn |-> "createPolicyEngineConfig", done |-> FALSE]

applyConfig ==
    /\ call.fn = "createPolicyEngineConfig"
    /\ ~call.done
    /\ call' = [fn |-> "createPolicyEngineConfig", done |-> TRUE,
                result |-> createPolicyEngineConfig(settings, approvalMode)]
    /\ UNCHANGED <<lastChar, stdout,
                   paths, fs, settings, approvalMode, rules, defaultDecision,
                   bus, nPublished, request, decision>>

NextFail == applyConfig

SpecFail == InitFail /\ [][NextFail]_vars

----------------------------------------------------------------------------
(* The flatMap callback of the loader applied to one rule entry: toolName  *)
(* absent, a string or an array, mcpName absent or given, with and without *)
(* argsPattern, empty strings and the empty array included.                *)

(* a record with the field when the option holds a value, none otherwise *)
Opt(field, option) ==
    IF option = <<>> THEN [x \in {} |-> x]
    ELSE [x \in {field} |-> option[1]]

EntryToolNames ==
    {<<>>, <<Str("replace")>>, <<Str("")>>, <<Arr(<<>>)>>,
     <<Arr(<<"replace">>)>>, <<Arr(<<"replace", "write_file">>)>>,
     <<Arr(<<"replace", "">>)>>}

EntryInputs ==
    {Opt("toolName", t) @@ Opt("mcpName", m) @@ Opt("argsPattern", a)
        @@ [decision |-> d, priority |-> 5] :
        t \in EntryToolNames, m \in {<<>>, <<"github">>, <<"">>},
        a \in {<<>>, <<"rm">>}, d \in PolicyDecision}

InitEntry ==
    /\ lastChar = "\n"
    /\ stdout = <<>>
    /\ paths = [default |-> DefaultDir, user |-> UserDir, admin |-> AdminDir]
    /\ fs = [d \in {DefaultDir, UserDir, AdminDir} |-> NoDir]
    /\ settings = NoSettings
    /\ approvalMode = "default"
    /\ rules = <<>>
    /\ defaultDecision = ASK_USER
    /\ bus = <<>>
    /\ nPublished = 0
    /\ request = NoRequest
    /\ decision = NoDecision
    /\ \E e \in EntryInputs, d \in {DefaultDir, UserDir, AdminDir} :
          call = [fn |-> "entryRules", entry |-> e, dir |-> d, done |-> FALSE]

applyEntryRules ==
    /\ call.fn = "entryRules"
    /\ ~call.done
    /\ PolicyRuleSchema(call.entry)
    /\ modeFilter(call.entry, approvalMode)
    /\ call' = [fn |-> "entryRules", entry |-> call.entry, dir |-> call.dir,
                done |-> TRUE,
                result |-> entryRules(call.entry, getPolicyTier(call.dir))]
    /\ UNCHANGED <<lastChar, stdout,
                   paths, fs, settings, approvalMode, rules, defaultDecision,
                   bus, nPublished, request, decision>>

NextEntry == applyEntryRules

SpecEntry == InitEntry /\ [][NextEntry]_vars

----------------------------------------------------------------------------
(* The tier of each directory of a directory list, as the loader's loop    *)
(* asks for it: the three locations may resolve to the same path, be       *)
(* written with a trailing separator, come in any order, and the list may  *)
(* hold a directory that is none of the three.                             *)

TierDefaultPaths == {DefaultDir, AdminDir}
TierUserPaths == {UserDir, DefaultDir, AdminDir \o "/"}
TierAdminPaths == {AdminDir, UserDir \o "/", DefaultDir}
TierExtraPaths == {"/tmp/policies", AdminDir \o "/", UserDir}

InitTier ==
    /\ lastChar = "\n"
    /\ stdout = <<>>
    /\ paths \in [default : TierDefaultPaths, user : TierUserPaths,
                   admin : TierAdminPaths]
    /\ fs = [d \in {DefaultDir, UserDir, AdminDir} |-> NoDir]
    /\ settings = NoSettings
    /\ approvalMode = "default"
    /\ rules = <<>>
    /\ defaultDecision = ASK_USER
    /\ bus = <<>>
    /\ nPublished = 0
    /\ request = NoRequest
    /\ decision = NoDecision
    /\ \E order \in Permutations(1..3), extra \in TierExtraPaths :
          call = [fn |-> "getPolicyTier",
                  policyDirs |->
                      [i \in 1..3 |-> getPolicyDirectories[order[i]]]
                          \o <<extra>>,
                  done |-> FALSE]

applyTiers ==
    /\ call.fn = "getPolicyTier"
    /\ ~call.done
    /\ call' = [fn |-> "getPolicyTier", policyDirs |-> call.policyDirs,
                done |-> TRUE,
                result |-> [i \in 1..Len(call.policyDirs) |->
                               getPolicyTier(call.policyDirs[i])]]
    /\ UNCHANGED <<lastChar, stdout,
                   paths, fs, settings, approvalMode, rules, defaultDecision,
                   bus, nPublished, request, decision>>

NextTier == applyTiers

SpecTier == InitTier /\ [][NextTier]_vars

----------------------------------------------------------------------------
(* Two engines constructed from one directory tree, the same settings and  *)
(* the same approval mode.  The second construction may see readdir list   *)
(* the files of the user directory in another order and may visit the      *)
(* directories in another order; both engines are then asked.              *)

OrderEntries ==
    ToolEntries({0})
    \cup {[toolName |-> Str("replace"), argsPattern |-> "rm",
           decision |-> DENY, priority |-> 0]}

OrderUserDirs ==
    {NoDir}
    \cup {[files |-> <<PolicyFile("a.toml", <<e>>)>>] : e \in OrderEntries}
    \cup {[files |-> <<PolicyFile("a.toml", <<e>>),
                       PolicyFile("b.toml", <<f>>)>>] :
              e \in OrderEntries, f \in OrderEntries}

OrderDefaultDirs ==
    {NoDir}
    \cup {[files |-> <<PolicyFile("default.toml",
               <<[toolName |-> Str("replace"), decision |-> d,
                  priority |-> 1000]>>)>>] : d \in {ALLOW, DENY}}

OrderAdminDirs ==
    {NoDir,
     [files |-> <<PolicyFile("admin.toml",
         <<[toolName |-> Str("replace"), argsPattern |-> "rm",
            decision |-> DENY, priority |-> 0]>>)>>]}

(* createPolicyEngineConfig over the enumeration fsys and the visiting    *)
(* order policyDirs                                                        *)
constructOver(fsys, policyDirs) ==
    LET RulesOf(dir) == loadDirOf(fsys, dir, approvalMode)
    IN  [rules |-> FlatMap(RulesOf, policyDirs) \o settingsRules(settings),
         defaultDecision |-> ASK_USER]

InitOrder ==
    /\ lastChar = "\n"
    /\ stdout = <<>>
    /\ paths = [default |-> DefaultDir, user |-> UserDir, admin |-> AdminDir]
    /\ \E dd \in OrderDefaultDirs, ud \in OrderUserDirs,
          ad \in OrderAdminDirs :
          fs = [d \in {DefaultDir, UserDir, AdminDir} |->
                   CASE d = DefaultDir -> dd
                     [] d = UserDir -> ud
                     [] d = AdminDir -> ad]
    /\ settings \in {NoSettings,
                      [NoSettings EXCEPT !.tools.exclude = <<"replace">>]}
    /\ approvalMode = "default"
    /\ rules = createPolicyEngineConfig(settings, approvalMode).rules
    /\ defaultDecision =
           createPolicyEngineConfig(settings, approvalMode).defaultDecision
    /\ bus = <<>>
    /\ nPublished = 0
    /\ request = NoRequest
    /\ decision = NoDecision
    /\ \E reversed \in BOOLEAN, order \in Permutations(1..3) :
          call = [fn |-> "construct",
                  fs |-> [fs EXCEPT ![UserDir] =
                             IF reversed /\ Has(@, "files")
                             THEN [files |-> Reverse(@.files)]
                             ELSE @],
                  policyDirs |->
                      [i \in 1..3 |-> getPolicyDirectories[order[i]]],
                  done |-> FALSE]

(* the second engine is constructed *)
constructAgain ==
    /\ call.fn = "construct"
    /\ ~call.done
    /\ call' = [call EXCEPT !.done = TRUE] @@
                [result |-> constructOver(call.fs, call.policyDirs),
                 decision |-> NoDecision]
    /\ UNCHANGED <<lastChar, stdout,
                   paths, fs, settings, approvalMode, rules, defaultDecision,
                   bus, nPublished, request, decision>>

(* the host asks both engines for a decision on the same request *)
evaluateBoth(req) ==
    /\ call.fn = "construct"
    /\ call.done
    /\ request' = req
    /\ decision' = evaluate(rules, defaultDecision, req)
    /\ call' = [call EXCEPT !.decision =
                    evaluate(call.result.rules, call.result.defaultDecision,
                             req)]
    /\ UNCHANGED <<lastChar, stdout,
                   paths, fs, settings, approvalMode, rules, defaultDecision,
                   bus, nPublished>>

NextOrder ==
    \/ constructAgain
    \/ \E req \in Requests : evaluateBoth(req)

SpecOrder == InitOrder /\ [][NextOrder]_vars

----------------------------------------------------------------------------
(* The engine receiving several update messages, the same tool identity    *)
(* more than once and the identities in any order.                         *)

InitSet ==
    /\ lastChar = "\n"
    /\ stdout = <<>>
    /\ paths = [default |-> DefaultDir, user |-> UserDir, admin |-> AdminDir]
    /\ fs \in {f \in FsChoices : f[AdminDir] = NoDir}
    /\ settings = NoSettings
    /\ approvalMode = "default"
    /\ rules = createPolicyEngineConfig(settings, approvalMode).rules
    /\ defaultDecision =
           createPolicyEngineConfig(settings, approvalMode).defaultDecision
    /\ bus = <<>>
    /\ nPublished = 0
    /\ request = NoRequest
    /\ decision = NoDecision
    /\ call = NoCall

(* the interactive layer publishes one more "always allow" message *)
publishAgain(message) ==
    /\ nPublished < MaxDeliveries
    /\ bus' = Append(bus, message)
    /\ nPublished' = nPublished + 1
    /\ UNCHANGED <<lastChar, stdout,
                   paths, fs, settings, approvalMode, rules, defaultDecision,
                   request, decision, call>>

NextSet ==
    \/ \E message \in Messages : publishAgain(message)
    \/ onUpdatePolicy
    \/ \E req \in Requests : Evaluate(req)

SpecSet == InitSet /\ [][NextSet]_vars

----------------------------------------------------------------------------
(* The engine left idle, for the specifications that apply one function *)

EngineIdle ==
    /\ lastChar = "\n"
    /\ stdout = <<>>
    /\ paths = [default |-> DefaultDir, user |-> UserDir, admin |-> AdminDir]
    /\ fs = [d \in {DefaultDir, UserDir, AdminDir} |-> NoDir]
    /\ settings = NoSettings
    /\ approvalMode = "default"
    /\ rules = <<>>
    /\ defaultDecision = ASK_USER
    /\ bus = <<>>
    /\ nPublished = 0
    /\ request = NoRequest
    /\ decision = NoDecision

engineVars == <<paths, fs, settings, approvalMode, rules, defaultDecision,
                bus, nPublished, request, decision, lastChar, stdout>>

----------------------------------------------------------------------------
(* Priority Compiler applied to two rule entries of two tier directories:  *)
(* both entries are compiled as the loader compiles them and a request for *)
(* their tool is evaluated against the two rules.                          *)

CompilePriorities == {-1000, -1, 0, 5, 10, 999, 1000}

CompileInputs ==
    {[dir |-> d,
      entry |-> [toolName |-> Str("replace"), decision |-> dec,
                 priority |-> p]] :
        d \in {DefaultDir, UserDir, AdminDir}, dec \in PolicyDecision,
        p \in CompilePriorities}

InitCompile ==
    /\ EngineIdle
    /\ \E a \in CompileInputs, b \in CompileInputs :
          call = [fn |-> "transformPriority", a |-> a, b |-> b,
                  done |-> FALSE]

compileEntries ==
    /\ call.fn = "transformPriority"
    /\ ~call.done
    /\ LET ra == entryRules(call.a.entry, getPolicyTier(call.a.dir))
           rb == entryRules(call.b.entry, getPolicyTier(call.b.dir))
       IN  call' = [fn |-> "transformPriority", a |-> call.a, b |-> call.b,
                    done |-> TRUE,
                    ra |-> ra[1], rb |-> rb[1],
                    decision |->
                        evaluate(ra \o rb, ASK_USER,
                                 [toolName |-> "replace", args |-> "ls",
                                  currentMode |-> "default"])]
    /\ UNCHANGED engineVars

NextCompile == compileEntries

SpecCompile == InitCompile /\ [][NextCompile]_vars

----------------------------------------------------------------------------
(* Pattern Matcher applied to one identity and one pattern, both built the *)
(* way the loader, the synthesizer and evaluate build them.                *)

MatchServers == {"server", "otherserver", "serv"}
MatchTools == {"anything", "any", "replace"}

(* a name: a bare tool, a tool of a server, or every tool of a server *)
MatchNames ==
    {[tool |-> t] : t \in MatchTools}
    \cup {[server |-> sv, tool |-> t] : sv \in MatchServers, t \in MatchTools}

MatchPatterns == MatchNames \cup {[server |-> sv] : sv \in MatchServers}

NameText(n) ==
    IF Has(n, "server") /\ Has(n, "tool") THEN CompositeName(n.server, n.tool)
    ELSE IF Has(n, "server") THEN ServerWildcard(n.server)
    ELSE n.tool

InitMatch ==
    /\ EngineIdle
    /\ \E id \in MatchNames, pat \in MatchPatterns :
          call = [fn |-> "matches", identity |-> id, pattern |-> pat,
                  done |-> FALSE]

applyMatches ==
    /\ call.fn = "matches"
    /\ ~call.done
    /\ call' = [fn |-> "matches", identity |-> call.identity,
                pattern |-> call.pattern, done |-> TRUE,
                result |-> matches(NameText(call.identity),
                                   NameText(call.pattern))]
    /\ UNCHANGED engineVars

NextMatch == applyMatches

SpecMatch == InitMatch /\ [][NextMatch]_vars

----------------------------------------------------------------------------
(* Rule Source Loader applied to the files of the user directory, under    *)
(* each approval mode: entries with and without modes, with a pattern that *)
(* compiles and with one that does not, in one file or in two.             *)

LoadEntries ==
    {[toolName |-> Str("replace"), decision |-> ALLOW, priority |-> 0],
     [toolName |-> Str("write_file"), decision |-> DENY, priority |-> 1,
      modes |-> <<>>],
     [decision |-> ALLOW, priority |-> 999, modes |-> <<"yolo">>],
     [toolName |-> Str("replace"), decision |-> ASK_USER, priority |-> 10,
      modes |-> <<"default", "autoEdit">>],
     [toolName |-> Str("replace"), argsPattern |-> "rm", decision |-> DENY,
      priority |-> 5],
     [toolName |-> Str("replace"), argsPattern |-> "(", decision |-> DENY,
      priority |-> 5],
     [toolName |-> Str("replace"), argsPattern |-> "(", decision |-> DENY,
      priority |-> 6, modes |-> <<"yolo">>]}

LoadDirChoices ==
    {[files |-> <<PolicyFile("a.toml", <<e>>)>>] : e \in LoadEntries}
    \cup {[files |-> <<PolicyFile("a.toml", <<e1, e2>>)>>] :
              e1 \in LoadEntries, e2 \in LoadEntries}
    \cup {[files |-> <<PolicyFile("a.toml", <<e1>>),
                       PolicyFile("b.toml", <<e2>>)>>] :
              e1 \in LoadEntries, e2 \in LoadEntries}

InitLoad ==
    /\ lastChar = "\n"
    /\ stdout = <<>>
    /\ paths = [default |-> DefaultDir, user |-> UserDir, admin |-> AdminDir]
    /\ \E ud \in LoadDirChoices :
          fs = [d \in {DefaultDir, UserDir, AdminDir} |->
                   IF d = UserDir THEN ud ELSE NoDir]
    /\ settings = NoSettings
    /\ approvalMode \in Modes
    /\ rules = <<>>
    /\ defaultDecision = ASK_USER
    /\ bus = <<>>
    /\ nPublished = 0
    /\ request = NoRequest
    /\ decision = NoDecision
    /\ call = [fn |-> "loadPoliciesFromConfig", done |-> FALSE]

applyLoad ==
    /\ call.fn = "loadPoliciesFromConfig"
    /\ ~call.done
    /\ call' = [fn |-> "loadPoliciesFromConfig", done |-> TRUE,
                result |-> loadPoliciesFromConfig(approvalMode,
                                                  getPolicyDirectories)]
    /\ UNCHANGED engineVars

NextLoad == applyLoad

SpecLoad == InitLoad /\ [][NextLoad]_vars

----------------------------------------------------------------------------
(* textOutput (ui/utils/textOutput.ts): the singleton that writes to       *)
(* stdout and remembers the last character written.  The state st is the   *)
(* pair of lastChar and the strings given to process.stdout.write; an      *)
(* optional argument is the empty tuple when it is undefined.              *)

charAt(str, i) == SubSeq(str, i, i)

(* lines 19-25 *)
write(st, str) ==
    IF Len(str) = 0 THEN st
    ELSE [lastChar |-> charAt(str, Len(str)),
          stdout |-> Append(st.stdout, str)]

writeOnNewLine_always(st, str) ==
    LET st1 == write(st, "\n")
    IN  IF str /= <<>> THEN write(st1, str[1]) ELSE st1

(* lines 34-41 *)
writeOnNewLine(st, str) ==
    LET st1 == IF st.lastChar /= "\n" THEN write(st, "\n") ELSE st
    IN  IF str /= <<>> THEN write(st1, str[1]) ELSE st1

TextStrings == {"", "a", "\n", "a\n", "\na"}

InitText ==
    /\ EngineIdle
    /\ call = [fn |-> "none", calls |-> 0]

callWrite(str) ==
    /\ call.calls < MaxWrites
    /\ lastChar' = write([lastChar |-> lastChar, stdout |-> stdout], str).lastChar
    /\ stdout' = write([lastChar |-> lastChar, stdout |-> stdout], str).stdout
    /\ call' = [fn |-> "write", str |-> <<str>>, calls |-> call.calls + 1]
    /\ UNCHANGED <<paths, fs, settings, approvalMode, rules, defaultDecision,
                   bus, nPublished, request, decision>>

callWriteOnNewLine(str) ==
    /\ call.calls < MaxWrites
    /\ lastChar' =
          writeOnNewLine([lastChar |-> lastChar, stdout |-> stdout],
                         str).lastChar
    /\ stdout' =
          writeOnNewLine([lastChar |-> lastChar, stdout |-> stdout],
                         str).stdout
    /\ call' = [fn |-> "writeOnNewLine", str |-> str,
                calls |-> call.calls + 1]
    /\ UNCHANGED <<paths, fs, settings, approvalMode, rules, defaultDecision,
                   bus, nPublished, request, decision>>

NextText ==
    \/ \E str \in TextStrings : callWrite(str)
    \/ \E str \in {<<>>} \cup {<<t>> : t \in TextStrings} :
          callWriteOnNewLine(str)

SpecText == InitText /\ [][NextText]_vars

----------------------------------------------------------------------------
(* Where the rules of the set come from.  The directories are visited in   *)
(* the order of getPolicyDirectories, then the settings are synthesized,   *)
(* then the update channel appends.                                        *)

nAdmin == Len(loadDir(paths.admin, approvalMode))
nUser == Len(loadDir(paths.user, approvalMode))
nLoaded == Len(loadPoliciesFromConfig(approvalMode, getPolicyDirectories))
nConfig == nLoaded + Len(settingsRules(settings))

AdminIdx == 1..nAdmin
UserDirIdx == (nAdmin + 1)..(nAdmin + nUser)
LoadedIdx == 1..nLoaded
SettingsIdx == (nLoaded + 1)..nConfig
InjectedIdx == (nConfig + 1)..Len(rules)
UserTierIdx == UserDirIdx \cup SettingsIdx \cup InjectedIdx

Matching(idx, req) == {i \in idx : ruleMatches(rules[i], req)}

Decide(req) == evaluate(rules, defaultDecision, req)

(* the request of the last evaluation, judged against the rule set of the  *)
(* state: every request of Requests is evaluated in every state            *)
Asked == IF request = NoRequest THEN {} ELSE {request}

----------------------------------------------------------------------------
(* C1: fail-closed default.  In every reachable state of the engine the    *)
(* default decision is ASK_USER, and a request that no rule of the set     *)
(* matches evaluates to ASK_USER.                                          *)
C1_FailClosed ==
    /\ defaultDecision = ASK_USER
    /\ \A req \in Asked :
          Matching(1..Len(rules), req) = {} => Decide(req) = ASK_USER

(* an unmatched request was evaluated after an injection, next to rules    *)
(* that match other requests                                               *)
C1_Witness ==
    /\ request /= NoRequest
    /\ Matching(1..Len(rules), request) = {}
    /\ decision = ASK_USER
    /\ InjectedIdx /= {}
    /\ nConfig > 0

(* C2: Admin beats User.  A request matched by an Admin-tier rule and by   *)
(* a User-tier rule (user directory, settings, always-allow) evaluates to  *)
(* the decision of a matching Admin-tier rule.                             *)
C2_AdminBeatsUser ==
    \A req \in Asked :
        (Matching(AdminIdx, req) /= {} /\ Matching(UserTierIdx, req) /= {})
            => Decide(req) \in {rules[i].decision : i \in Matching(AdminIdx, req)}

C9_PatternMatching ==
    (call.fn = "matches" /\ call.done) =>
        LET id == NameText(call.identity)
            pat == NameText(call.pattern)
            n == Len(pat)
        IN  /\ call.result =
                  (\/ id = pat
                   \/ /\ n >= 1
                      /\ SubSeq(pat, n, n) = "*"
                      /\ Len(id) >= n - 1
                      /\ \A k \in 1..(n - 1) :
                            SubSeq(id, k, k) = SubSeq(pat, k, k))
            /\ (Has(call.pattern, "server") /\ ~Has(call.pattern, "tool")
                /\ Has(call.identity, "server"))
                  => call.result = (call.identity.server = call.pattern.server)

(* "server__*" was tried against "otherserver__anything" *)
C9_Witness ==
    /\ call.fn = "matches" /\ call.done
    /\ NameText(call.pattern) = "server__*"
    /\ NameText(call.identity) = "otherserver__anything"
    /\ call.result = FALSE

(* a rule applies to a request: modes, name pattern and argsPattern agree *)
C4_Applies(rule, req) ==
    /\ Has(rule, "modes") =>
          (rule.modes = <<>> \/ SeqIncludes(rule.modes, req.currentMode))
    /\ Has(rule, "toolName") =>
          \/ matches(req.toolName, rule.toolName)
          \/ /\ Has(req, "mcpServerName")
             /\ matches(CompositeName(req.mcpServerName, req.toolName),
                        rule.toolName)
    /\ Has(rule, "argsPattern") => includes(req.args, rule.argsPattern.source)

(* C4: highest priority wins.  Whenever a rule applies to a request        *)
(* (its modes admit the current mode, its pattern matches the bare name or *)
(* the composite identity, its argsPattern is absent or matches), evaluate *)
(* returns the decision of an applicable rule of maximal priority.         *)
C4_HighestPriorityWins ==
    \A req \in Asked :
        LET M == {i \in 1..Len(rules) : C4_Applies(rules[i], req)}
        IN  M /= {} =>
                \E i \in M :
                    /\ \A j \in M : rules[j].priority <= rules[i].priority
                    /\ Decide(req) = rules[i].decision

(* a request was decided by the later of two applicable rules of different *)
(* priority and decision, next to a rule that does not apply               *)
C4_Witness ==
    /\ request /= NoRequest
    /\ decision = Decide(request)
    /\ \E i, j \in Matching(1..Len(rules), request) :
          /\ i < j
          /\ rules[i].priority < rules[j].priority
          /\ rules[i].decision /= rules[j].decision
          /\ decision = rules[j].decision
    /\ \E k \in 1..Len(rules) : ~ruleMatches(rules[k], request)

(* C5 as stated: a request matched by an Admin-tier DENY rule and by an    *)
(* injected always-allow rule evaluates to DENY.                           *)
C5_AdminDenySurvivesAlwaysAllow ==
    \A req \in Asked :
        (/\ \E i \in Matching(AdminIdx, req) : rules[i].decision = DENY
         /\ Matching(InjectedIdx, req) /= {})
            => Decide(req) = DENY

(* C6 as stated: a request matched by an always-allow rule, by another     *)
(* User-tier rule (user directory with declared priority below 1000, or    *)
(* settings) and by no Admin-tier rule evaluates to ALLOW.                 *)
C6_AlwaysAllowOutranksUserTier ==
    \A req \in Asked :
        (/\ Matching(InjectedIdx, req) /= {}
         /\ Matching(UserDirIdx \cup SettingsIdx, req) /= {}
         /\ \A i \in Matching(UserDirIdx, req) :
               rules[i].priority < transformPriority(1000, 2)
         /\ Matching(AdminIdx, req) = {})
            => Decide(req) = ALLOW

(* C6 amended: a request matched by an always-allow rule, by no Admin-tier *)
(* rule, by no rule synthesized from a settings exclusion and by no        *)
(* directory rule whose compiled priority reaches 2.95 (user directory:    *)
(* declared 950 or more) evaluates to ALLOW.                               *)
C6_AlwaysAllowOutranks ==
    \A req \in Asked :
        (/\ Matching(InjectedIdx, req) /= {}
         /\ Matching(AdminIdx, req) = {}
         /\ \A i \in Matching(SettingsIdx, req) : rules[i].decision = ALLOW
         /\ \A i \in Matching(LoadedIdx, req) :
               rules[i].priority < ALWAYS_ALLOW_PRIORITY)
            => Decide(req) = ALLOW

(* an always-allow rule overrode a DENY of the user directory *)
C6_Witness ==
    /\ request /= NoRequest
    /\ decision = ALLOW
    /\ decision = Decide(request)
    /\ Matching(InjectedIdx, request) /= {}
    /\ Matching(AdminIdx, request) = {}
    /\ \E i \in Matching(UserDirIdx, request) :
          rules[i].decision = DENY /\ rules[i].priority = 2000

(* C7: exclusions outrank inclusions.  Every DENY rule synthesized from    *)
(* the settings has a higher priority than every ALLOW rule synthesized    *)
(* from them, and a tool the settings both exclude and allow evaluates to  *)
(* DENY.                                                                   *)
C7_ExclusionsOutrankInclusions ==
    /\ \A i, j \in SettingsIdx :
          (rules[i].decision = DENY /\ rules[j].decision = ALLOW)
              => rules[i].priority > rules[j].priority
    /\ \A req \in Asked :
          (/\ SeqIncludes(settings.tools.exclude, req.toolName)
           /\ SeqIncludes(settings.tools.allowed, req.toolName))
              => Decide(req) = DENY

(* Scenario B: the tool is excluded and allowed, and was evaluated *)
C7_Witness ==
    /\ request /= NoRequest
    /\ SeqIncludes(settings.tools.exclude, request.toolName)
    /\ SeqIncludes(settings.tools.allowed, request.toolName)
    /\ decision = DENY

(* the settings trust or allow the server *)
C8_ServerAllowed(s, serverName) ==
    \/ SeqIncludes(s.mcp.allowed, serverName)
    \/ \E i \in 1..Len(s.mcpServers) :
          s.mcpServers[i].name = serverName /\ s.mcpServers[i].config.trust

(* C8: a per-tool exclusion beats server-level trust.  When the settings   *)
(* trust or allow a server and exclude the composite identity of one of    *)
(* its tools, a request for that tool of that server evaluates to DENY.    *)
C8_ToolExclusionBeatsServerTrust ==
    \A req \in Asked :
        (/\ Has(req, "mcpServerName")
         /\ C8_ServerAllowed(settings, req.mcpServerName)
         /\ SeqIncludes(settings.tools.exclude,
                        CompositeName(req.mcpServerName, req.toolName)))
            => Decide(req) = DENY

(* Scenario C: the server is trusted, its tool excluded, and was evaluated *)
C8_Witness ==
    /\ request /= NoRequest
    /\ Has(request, "mcpServerName")
    /\ \E i \in 1..Len(settings.mcpServers) :
          /\ settings.mcpServers[i].name = request.mcpServerName
          /\ settings.mcpServers[i].config.trust
    /\ SeqIncludes(settings.tools.exclude,
                   CompositeName(request.mcpServerName, request.toolName))
    /\ decision = DENY

(* C10: deterministic tie-break.  The decision for a request is the same   *)
(* for every order of insertion of the rules of the set, and when a DENY   *)
(* rule is among the applicable rules of maximal priority it is DENY.      *)
C10_DeterministicTieBreak ==
    request /= NoRequest =>
        LET n == Len(rules)
            M == Matching(1..n, request)
            top == {i \in M : \A j \in M : rules[j].priority <= rules[i].priority}
        IN  /\ \A f \in Permutations(1..n) :
                  evaluate([i \in 1..n |-> rules[f[i]]], defaultDecision,
                           request) = Decide(request)
            /\ (\E i \in top : rules[i].decision = DENY)
                  => Decide(request) = DENY

(* a user-directory ALLOW at declared 0 and a later Default DENY at        *)
(* declared 1000 tie at 2.000, and the request evaluated to DENY           *)
C10_Witness ==
    /\ request /= NoRequest
    /\ decision = DENY
    /\ decision = Decide(request)
    /\ \E i, j \in Matching(1..Len(rules), request) :
          /\ i < j
          /\ rules[i].priority = rules[j].priority
          /\ rules[i].decision = ALLOW
          /\ rules[j].decision = DENY
          /\ \A k \in Matching(1..Len(rules), request) :
                rules[k].priority <= rules[i].priority

(* C11 as stated: priority guard.  No rule compiled from an entry of a     *)
(* tier directory has a compiled priority of tier + 1 or more: an entry    *)
(* with a declared priority of 1000 or more is rejected or clamped.        *)
C11_PriorityGuard ==
    (call.fn = "transformPriority" /\ call.done) =>
        /\ call.ra.priority < transformPriority(0, getPolicyTier(call.a.dir) + 1)
        /\ call.rb.priority < transformPriority(0, getPolicyTier(call.b.dir) + 1)

(* the entry's pattern source is one that new RegExp does not compile *)
InvalidPattern(entry) ==
    Has(entry, "argsPattern") /\ RegExpThrows(entry.argsPattern)

(* the modes field is absent, is empty, or contains the mode *)
C13_Admits(entry, mode) ==
    \/ ~Has(entry, "modes")
    \/ entry.modes = <<>>
    \/ \E i \in 1..Len(entry.modes) : entry.modes[i] = mode

(* C13: mode filtering at load.  When every pattern of the files compiles, *)
(* the result of loadPoliciesFromConfig is, in order, the rules of exactly *)
(* the entries whose modes field is absent, is empty or contains the       *)
(* active approval mode; every other entry contributes no rule.            *)
C13_ModeFilterAtLoad ==
    (/\ call.fn = "loadPoliciesFromConfig" /\ call.done
     /\ \A k \in 1..Len(fs[UserDir].files) :
           \A i \in 1..Len(fs[UserDir].files[k].content.rule) :
               ~InvalidPattern(fs[UserDir].files[k].content.rule[i]))
        => LET OfEntry(e) ==
                   IF C13_Admits(e, approvalMode)
                   THEN entryRules(e, getPolicyTier(UserDir)) ELSE <<>>
               OfFile(f) == FlatMap(OfEntry, f.content.rule)
           IN  call.result = FlatMap(OfFile, fs[UserDir].files)

(* in mode autoEdit, of a yolo entry and a default/autoEdit entry of one   *)
(* file only the second was compiled                                       *)
C13_Witness ==
    /\ call.fn = "loadPoliciesFromConfig" /\ call.done
    /\ approvalMode = "autoEdit"
    /\ Len(fs[UserDir].files) = 1
    /\ Len(fs[UserDir].files[1].content.rule) = 2
    /\ Has(fs[UserDir].files[1].content.rule[1], "modes")
    /\ Has(fs[UserDir].files[1].content.rule[2], "modes")
    /\ fs[UserDir].files[1].content.rule[1].modes = <<"yolo">>
    /\ fs[UserDir].files[1].content.rule[2].modes = <<"default", "autoEdit">>
    /\ call.result =
          <<[toolName |-> "replace", decision |-> ASK_USER, priority |-> 2010]>>

(* C20 as stated: an invalid argsPattern invalidates only its own rule.    *)
(* The result of loadPoliciesFromConfig is, in order, the rules of every   *)
(* entry the mode filter keeps, of every file, except the entries whose    *)
(* argsPattern does not compile.                                           *)
C20_InvalidPatternDropsOnlyItsRule ==
    (call.fn = "loadPoliciesFromConfig" /\ call.done)
        => LET OfEntry(e) ==
                   IF C13_Admits(e, approvalMode) /\ ~InvalidPattern(e)
                   THEN entryRules(e, getPolicyTier(UserDir)) ELSE <<>>
               OfFile(f) == FlatMap(OfEntry, f.content.rule)
           IN  call.result = FlatMap(OfFile, fs[UserDir].files)

(* the file system with only the entries whose modes admit the mode *)
fsAdmitting(mode) ==
    [d \in DOMAIN fs |->
        IF Has(fs[d], "error") THEN fs[d]
        ELSE [files |->
                 [k \in 1..Len(fs[d].files) |->
                     IF Has(fs[d].files[k].content, "rule")
                     THEN [fs[d].files[k] EXCEPT !.content.rule =
                              SelectSeq(@, LAMBDA e : C13_Admits(e, mode))]
                     ELSE fs[d].files[k]]]]

(* the rule set made of the rules whose entries admit the mode, followed   *)
(* by the rules of the settings and of the update channel                  *)
rulesAdmitting(mode) ==
    LET OfDir(dir) == loadDirOf(fsAdmitting(mode), dir, approvalMode)
    IN  FlatMap(OfDir, getPolicyDirectories)
            \o SubSeq(rules, nLoaded + 1, Len(rules))

(* C12 as stated: mode filtering at evaluation.  The decision for a        *)
(* request is the one computed from the rules whose entries have no modes, *)
(* empty modes or modes that contain the current mode of the request: a    *)
(* rule declared for other modes never determines it, whatever approval    *)
(* mode was active at construction.                                        *)
C12_ModeFilterAtEvaluation ==
    \A req \in Asked :
        Decide(req) =
            evaluate(rulesAdmitting(req.currentMode), defaultDecision, req)

(* the rule set as it was after k rules: the set of construction and a     *)
(* whole number of appends                                                 *)
RuleSetAfter(k) == SubSeq(rules, 1, k)

(* C14: no torn reads.  Every evaluate call in flight holds, and every     *)
(* decision returned was computed from, the complete rule set as it was    *)
(* before or after an append; every appended rule is a whole rule.         *)
C14_NoTornReads ==
    /\ \A e \in call.inFlight :
          \E k \in nConfig..Len(rules) : e.seen = RuleSetAfter(k)
    /\ request /= NoRequest =>
          \E k \in nConfig..Len(rules) :
              decision = evaluate(RuleSetAfter(k), defaultDecision, request)
    /\ \A i \in InjectedIdx :
          rules[i] \in {createPolicyUpdater(m) : m \in Messages}

(* an evaluate call issued before an append is still in flight after it,   *)
(* and the two rule sets decide its request differently                    *)
C14_Witness ==
    \E e \in call.inFlight :
        /\ Len(e.seen) < Len(rules)
        /\ Len(e.seen) > 0
        /\ evaluate(e.seen, defaultDecision, e.request) /= Decide(e.request)

(* C15: visibility of an injection.  An evaluate call issued after an      *)
(* append returned reads a rule set that contains the appended rule; the   *)
(* append adds the rule of the message at the end of the set and leaves    *)
(* the decision already returned as it was.                                *)
C15_InjectionVisibility ==
    /\ [](\A e \in call.inFlight :
             /\ Len(e.seen) >= nConfig + e.added
             /\ e.seen = RuleSetAfter(Len(e.seen)))
    /\ [][Len(bus') < Len(bus) =>
             /\ rules' = Append(rules, createPolicyUpdater(Head(bus)))
             /\ request' = request
             /\ decision' = decision]_vars

(* a call issued after the append returned ALLOW, a decision the rule set  *)
(* of construction does not give                                           *)
C15_Witness ==
    /\ request /= NoRequest
    /\ InjectedIdx /= {}
    /\ decision = ALLOW
    /\ evaluate(RuleSetAfter(nConfig), defaultDecision, request) = DENY
    /\ call.inFlight = {}

(* C17: append-only rule set.  In every step the rule set before the step  *)
(* is a prefix of the rule set after it, and a step that changes the set   *)
(* appends the rule of the update message being handled.                   *)
C17_AppendOnly ==
    [][/\ Len(rules) <= Len(rules')
       /\ SubSeq(rules', 1, Len(rules)) = rules
       /\ rules' /= rules =>
             /\ bus /= <<>>
             /\ rules' = Append(rules, createPolicyUpdater(Head(bus)))]_vars

(* a rule was appended behind a rule of lower priority, and the rules of   *)
(* construction are still the first ones, in their order                   *)
C17_Witness ==
    /\ InjectedIdx /= {}
    /\ nConfig > 0
    /\ rules[Len(rules)].priority > rules[1].priority
    /\ RuleSetAfter(nConfig) =
          createPolicyEngineConfig(settings, approvalMode).rules

(* C18: evaluate is read-only and total.  A step in which evaluate returns *)
(* leaves the rule set and the default decision unchanged, and every       *)
(* decision returned is one of ALLOW, DENY, ASK_USER, also for a request   *)
(* that no rule matches.                                                   *)
C18_EvaluateReadOnlyTotal ==
    /\ [](request /= NoRequest => decision \in PolicyDecision)
    /\ [][(request' /= request \/ decision' /= decision) =>
             (rules' = rules /\ defaultDecision' = defaultDecision)]_vars

(* a request under a server name that no rule of a non-empty set matches   *)
(* was answered ASK_USER                                                   *)
C18_Witness ==
    /\ request /= NoRequest
    /\ Has(request, "mcpServerName")
    /\ Len(rules) > 0
    /\ \A i \in 1..Len(rules) : ~ruleMatches(rules[i], request)
    /\ decision = ASK_USER

(* the tool identity of the message is missing or empty *)
Malformed(message) == ~Has(message, "toolName") \/ message.toolName = ""

(* C19 as stated: a malformed injection is rejected without effect.  The   *)
(* step that handles an UPDATE_POLICY message whose tool identity is       *)
(* missing or empty leaves the rule set exactly as it was.                 *)
C19_MalformedInjectionRejected ==
    [][(bus /= <<>> /\ Len(bus') < Len(bus) /\ Malformed(Head(bus)))
          => rules' = rules]_vars

(* C16: readiness gate and load-then-publish.  Until the load has          *)
(* returned no rule set is visible and a request is answered "not ready";  *)
(* an aborted load leaves nothing visible; once the load has returned the  *)
(* visible set starts with the rules of every directory and of the         *)
(* settings, and every decision was computed from such a complete set.     *)
C16_ReadinessGate ==
    /\ call.state /= "ready" =>
          /\ rules = <<>>
          /\ defaultDecision = NoDecision
          /\ request /= NoRequest => decision = NOT_READY
    /\ call.state = "ready" =>
          /\ Len(rules) >= nConfig
          /\ RuleSetAfter(nConfig) =
                createPolicyEngineConfig(settings, approvalMode).rules
          /\ (request /= NoRequest /\ decision /= NOT_READY) =>
                \E k \in nConfig..Len(rules) :
                    decision =
                        evaluate(RuleSetAfter(k), defaultDecision, request)

(* two directories are read, the third is not, rules are already in the    *)
(* local list, and a request was turned away                               *)
C16_Witness ==
    /\ call.state = "loading"
    /\ Len(call.dirs) = 1
    /\ Len(call.acc) = 2
    /\ rules = <<>>
    /\ request /= NoRequest
    /\ decision = NOT_READY

(* the directory cannot be listed *)
DirFails(dirState) == Has(dirState, "error")

(* the file cannot be read or parsed, or its content fails the schema *)
FileFails(file) ==
    Has(file.content, "error") \/ ~PolicyFileSchema(file.content)

(* C21: failure isolation in the loader.  createPolicyEngineConfig returns *)
(* a config whose rules are, in the order Admin, User, Default, the rules  *)
(* of the entries of every file that loads in every directory that can be  *)
(* listed, followed by the rules of the settings: a failing directory or   *)
(* file contributes nothing and takes nothing away.                        *)
C21_FailureIsolation ==
    (call.fn = "createPolicyEngineConfig" /\ call.done) =>
        LET OfDir(dir) ==
                IF DirFails(fs[dir]) THEN <<>>
                ELSE LET OfFile(f) ==
                             IF FileFails(f) THEN <<>>
                             ELSE LET OfEntry(e) ==
                                          entryRules(e, getPolicyTier(dir))
                                  IN  FlatMap(OfEntry, f.content.rule)
                     IN  FlatMap(OfFile, fs[dir].files)
        IN  /\ call.result.rules =
                    FlatMap(OfDir, <<AdminDir, UserDir, DefaultDir>>)
                        \o settingsRules(settings)
            /\ call.result.defaultDecision = ASK_USER

(* the admin directory is unreadable, the first file of the user directory *)
(* is not TOML, and the second file was loaded all the same                *)
C21_Witness ==
    /\ call.fn = "createPolicyEngineConfig" /\ call.done
    /\ fs[AdminDir] = Unreadable
    /\ ~DirFails(fs[UserDir])
    /\ Len(fs[UserDir].files) = 2
    /\ fs[UserDir].files[1].name = "broken.toml"
    /\ ~FileFails(fs[UserDir].files[2])
    /\ Len(call.result.rules) >= 1
    /\ call.result.rules[1].priority \in {2000, 2001}

(* the entry of the call names its tools by an array *)
EntryHasArray ==
    Has(call.entry, "toolName") /\ call.entry.toolName.type = "array"

(* C22: toolName array expansion.  An entry whose toolName is an array of  *)
(* n names yields n rules, the i-th for the i-th name, each with the       *)
(* decision, the compiled priority and the argsPattern of the entry.       *)
C22_ArrayExpansion ==
    (call.fn = "entryRules" /\ call.done /\ EntryHasArray) =>
        LET e == call.entry
            r == call.result
        IN  /\ Len(r) = Len(e.toolName.v)
            /\ \A i \in 1..Len(r) :
                  /\ r[i].decision = e.decision
                  /\ r[i].priority =
                        getPolicyTier(call.dir) * Scale + e.priority
                  /\ IF Has(e, "argsPattern")
                     THEN /\ Has(r[i], "argsPattern")
                          /\ r[i].argsPattern.source = e.argsPattern
                     ELSE ~Has(r[i], "argsPattern")
                  /\ ~Has(e, "mcpName") =>
                        (Has(r[i], "toolName")
                         /\ r[i].toolName = e.toolName.v[i])

(* an array of two names with an argsPattern gave two rules *)
C22_Witness ==
    /\ call.fn = "entryRules" /\ call.done /\ EntryHasArray
    /\ call.entry.toolName.v = <<"replace", "write_file">>
    /\ Has(call.entry, "argsPattern")
    /\ ~Has(call.entry, "mcpName")
    /\ call.dir = AdminDir
    /\ Len(call.result) = 2
    /\ call.result[2].toolName = "write_file"
    /\ call.result[2].priority = 3005

(* the tool names of the entry, one per rule: a string counts as one name, *)
(* an absent toolName as no name                                           *)
EntryNames(e) ==
    IF ~Has(e, "toolName") THEN <<>>
    ELSE IF e.toolName.type = "array" THEN e.toolName.v
    ELSE <<e.toolName.v>>

(* the identities of C23 for an entry, given which values count as present *)
ScopedAs(e, r, present(_)) ==
    LET names == EntryNames(e)
        hasMcp == Has(e, "mcpName") /\ present(e.mcpName)
    IN  /\ \A i \in 1..Len(names) :
              (present(names[i]) /\ i <= Len(r)) =>
                  /\ Has(r[i], "toolName")
                  /\ r[i].toolName =
                        IF hasMcp THEN e.mcpName \o "__" \o names[i]
                        ELSE names[i]
        /\ (hasMcp /\ ~Has(e, "toolName")) =>
              /\ Len(r) = 1
              /\ Has(r[1], "toolName")
              /\ r[1].toolName = e.mcpName \o "__*"

(* C23 as stated: MCP scoping, an mcpName or toolName that is given (empty *)
(* or not) counting as present.                                            *)
C23_McpScopingAnyString ==
    (call.fn = "entryRules" /\ call.done) =>
        LET AnyString(x) == TRUE
        IN  ScopedAs(call.entry, call.result, AnyString)

(* C23 amended: MCP scoping for names that are not empty.  With a          *)
(* non-empty mcpName every non-empty tool name yields the composite        *)
(* identity mcpName__toolName and an entry without toolName the server     *)
(* wildcard mcpName__*; without a non-empty mcpName a non-empty tool name  *)
(* is kept unchanged.                                                      *)
C23_McpScoping ==
    (call.fn = "entryRules" /\ call.done) =>
        LET NonEmpty(x) == x /= ""
        IN  ScopedAs(call.entry, call.result, NonEmpty)

(* mcpName github with the names replace and write_file *)
C23_Witness ==
    /\ call.fn = "entryRules" /\ call.done /\ EntryHasArray
    /\ Has(call.entry, "mcpName")
    /\ call.entry.mcpName = "github"
    /\ Len(call.result) = 2
    /\ call.result[1].toolName = "github__replace"
    /\ call.result[2].toolName = "github__write_file"

(* C30: number of rules per entry.  An entry that passes the mode filter   *)
(* yields as many rules as its toolName array has elements and one rule    *)
(* when toolName is a string or absent; with neither toolName nor mcpName  *)
(* the one rule has no tool-name pattern; an empty array yields no rule,   *)
(* with or without mcpName.                                                *)
C30_RulesPerEntry ==
    (call.fn = "entryRules" /\ call.done) =>
        LET e == call.entry
            r == call.result
        IN  /\ Len(r) = IF EntryHasArray THEN Len(e.toolName.v) ELSE 1
            /\ (~Has(e, "toolName") /\ ~Has(e, "mcpName")) =>
                  ~Has(r[1], "toolName")
            /\ (EntryHasArray /\ e.toolName.v = <<>>) => r = <<>>

(* the empty array next to an mcpName gave no rule *)
C30_Witness ==
    /\ call.fn = "entryRules" /\ call.done /\ EntryHasArray
    /\ call.entry.toolName.v = <<>>
    /\ Has(call.entry, "mcpName")
    /\ call.entry.mcpName = "github"
    /\ call.result = <<>>

(* the tiers whose location resolves to the path the directory resolves to *)
TiersAt(dir) ==
    {t \in 1..3 :
        pathResolve(<<paths.default, paths.user, paths.admin>>[t])
            = pathResolve(dir)}

(* C29: tier assignment by path with least-privilege fallback.  Every      *)
(* directory of the list gets the lowest tier among the locations its      *)
(* resolved path equals (default 1, user 2, admin 3) and tier 1 when it    *)
(* equals none, wherever it stands in the list; tier 3 is given only to a  *)
(* directory that resolves to the admin location.                          *)
C29_TierByPath ==
    (call.fn = "getPolicyTier" /\ call.done) =>
        LET dirs == call.policyDirs
            tier == call.result
        IN  /\ \A i \in 1..Len(dirs) :
                  /\ tier[i] =
                        IF TiersAt(dirs[i]) = {} THEN 1
                        ELSE CHOOSE t \in TiersAt(dirs[i]) :
                                 \A u \in TiersAt(dirs[i]) : t <= u
                  /\ tier[i] = 3 =>
                        pathResolve(dirs[i]) = pathResolve(paths.admin)
            /\ \A i, j \in 1..Len(dirs) :
                  pathResolve(dirs[i]) = pathResolve(dirs[j]) =>
                      tier[i] = tier[j]

(* the user and admin locations resolve to one path, which gets tier 2,    *)
(* visited first in a list that also holds an unknown directory (tier 1)   *)
C29_Witness ==
    /\ call.fn = "getPolicyTier" /\ call.done
    /\ paths.default = DefaultDir
    /\ paths.user = AdminDir \o "/"
    /\ paths.admin = AdminDir
    /\ call.policyDirs[1] = AdminDir
    /\ call.result[1] = 2
    /\ call.policyDirs[4] = "/tmp/policies"
    /\ call.result[4] = 1

(* C24: determinism of construction.  Two engines constructed from the     *)
(* same directory tree, settings and approval mode give the same decision  *)
(* for every request, in whatever order the files of a directory are       *)
(* enumerated and the directories are visited.                             *)
C24_ConstructionDeterministic ==
    (call.fn = "construct" /\ call.done /\ request /= NoRequest) =>
        decision = call.decision

(* two user files that tie at one priority with different decisions were   *)
(* enumerated in the opposite order, the directories were visited in       *)
(* another order, the two rule lists differ and both engines said DENY     *)
C24_Witness ==
    /\ call.fn = "construct" /\ call.done /\ request /= NoRequest
    /\ Has(fs[UserDir], "files")
    /\ call.fs[UserDir] /= fs[UserDir]
    /\ call.policyDirs /= getPolicyDirectories
    /\ call.result.rules /= rules
    /\ Len(rules) >= 3
    /\ rules[1].priority = rules[2].priority
    /\ rules[1].decision = ALLOW
    /\ rules[2].decision = DENY
    /\ decision = DENY
    /\ call.decision = DENY

(* C25: shape of injected rules.  Every update message handled adds        *)
(* exactly one rule, which has the toolName of the message, the decision   *)
(* ALLOW, the priority 2.95 and no other field; the handler puts nothing   *)
(* on the message bus.                                                     *)
C25_InjectedRuleShape ==
    /\ [](/\ Len(rules) = nConfig + nPublished - Len(bus)
          /\ \A i \in InjectedIdx :
                /\ DOMAIN rules[i] = {"toolName", "decision", "priority"}
                /\ rules[i].decision = ALLOW
                /\ rules[i].priority = 2 * Scale + 950)
    /\ [][(bus /= <<>> /\ Len(bus') < Len(bus)) =>
             /\ rules' = Append(rules, [toolName |-> Head(bus).toolName,
                                        decision |-> ALLOW,
                                        priority |-> 2 * Scale + 950])
             /\ bus' = Tail(bus)
             /\ nPublished' = nPublished]_vars

(* the message for github__replace was handled behind a DENY rule of the   *)
(* user directory                                                          *)
C25_Witness ==
    /\ nPublished = 1
    /\ bus = <<>>
    /\ Len(rules) = nConfig + 1
    /\ rules[Len(rules)].toolName = "github__replace"
    /\ \E i \in UserDirIdx : rules[i].decision = DENY

(* the request is one the tool identity T stands for *)
MatchesIdentity(req, T) == \E id \in identities(req) : matches(id, T)

(* C27: frame and monotonicity of an injection.  Handling the update       *)
(* message for tool identity T leaves the decision of every request that   *)
(* does not match T as it was, and the decision of every request is after  *)
(* the step either what it was before or ALLOW.                            *)
C27_InjectionFrame ==
    [][rules' /= rules =>
          \A req \in Requests :
              LET before == evaluate(rules, defaultDecision, req)
                  after == evaluate(rules', defaultDecision', req)
              IN  /\ after \in {before, ALLOW}
                  /\ ~MatchesIdentity(req, Head(bus).toolName) =>
                        after = before]_vars

(* after the injection for github__replace the request under the server    *)
(* github is allowed and the request for the bare tool is still asked      *)
C27_Witness ==
    /\ InjectedIdx /= {}
    /\ rules[Len(rules)].toolName = "github__replace"
    /\ evaluate(RuleSetAfter(nConfig), defaultDecision,
                [toolName |-> "replace", mcpServerName |-> "github",
                 args |-> "ls", currentMode |-> "default"]) = ASK_USER
    /\ evaluate(rules, defaultDecision,
                [toolName |-> "replace", mcpServerName |-> "github",
                 args |-> "ls", currentMode |-> "default"]) = ALLOW
    /\ evaluate(rules, defaultDecision,
                [toolName |-> "replace", args |-> "ls",
                 currentMode |-> "default"]) = ASK_USER

(* the rule set after the update messages for the tool identities of seq   *)
(* were handled one after the other, starting from the rule set rs         *)
RECURSIVE Deliver(_, _)
Deliver(rs, seq) ==
    IF seq = <<>> THEN rs
    ELSE Deliver(addRule(rs, createPolicyUpdater(
                     [type |-> UPDATE_POLICY, toolName |-> Head(seq)])),
                 Tail(seq))

(* the tool identities injected so far *)
InjectedIdentities == {rules[i].toolName : i \in InjectedIdx}

(* every sequence of deliveries that carries the set of identities ids *)
SequencesCarrying(ids) ==
    {seq \in UNION {[1..n -> ids] : n \in 0..MaxDeliveries} :
        {seq[i] : i \in DOMAIN seq} = ids}

(* C28: decisions depend only on the set of injected tool identities.      *)
(* After the update messages handled so far, every request gets the        *)
(* decision it gets after any other sequence of update messages that       *)
(* carries the same set of tool identities, in any order and with any      *)
(* repetitions.                                                            *)
C28_SetOfIdentitiesDecides ==
    \A seq \in SequencesCarrying(InjectedIdentities), req \in Requests :
        evaluate(Deliver(RuleSetAfter(nConfig), seq), defaultDecision, req)
            = evaluate(rules, defaultDecision, req)

(* replace, github__replace and replace again were handled: three rules    *)
(* for two identities, and the bare request is allowed as it is after the  *)
(* two messages github__replace, replace                                   *)
C28_Witness ==
    /\ Len(rules) = nConfig + 3
    /\ rules[nConfig + 1].toolName = "replace"
    /\ rules[nConfig + 2].toolName = "github__replace"
    /\ rules[nConfig + 3].toolName = "replace"
    /\ <<"github__replace", "replace">>
          \in SequencesCarrying(InjectedIdentities)
    /\ evaluate(RuleSetAfter(nConfig), defaultDecision,
                [toolName |-> "replace", args |-> "ls",
                 currentMode |-> "default"]) = ASK_USER
    /\ evaluate(rules, defaultDecision,
                [toolName |-> "replace", args |-> "ls",
                 currentMode |-> "default"]) = ALLOW

(* the last string that reached stdout, if any, ends with a newline *)
EndsWithNewline(out) ==
    out = <<>> \/ endsWith(out[Len(out)], "\n")

(* C26: textOutput newline tracking.  After any sequence of write and      *)
(* writeOnNewLine calls, writeOnNewLine(str) emits exactly one newline     *)
(* before str when the last non-empty string written did not end with a    *)
(* newline and none of its own otherwise, also when nothing was written    *)
(* yet; write of the empty string emits nothing and leaves the tracked     *)
(* last character as it was.                                               *)
C26_NewlineTracking ==
    /\ [](lastChar = IF stdout = <<>> THEN "\n"
                     ELSE charAt(stdout[Len(stdout)],
                                 Len(stdout[Len(stdout)])))
    /\ [][(call'.calls = call.calls + 1 /\ call'.fn = "writeOnNewLine") =>
             stdout' = stdout
                 \o (IF EndsWithNewline(stdout) THEN <<>> ELSE <<"\n">>)
                 \o (IF call'.str = <<>> \/ call'.str = <<"">> THEN <<>>
                     ELSE call'.str)]_vars
    /\ [][(call'.calls = call.calls + 1 /\ call'.fn = "write"
               /\ call'.str = <<"">>) =>
             (stdout' = stdout /\ lastChar' = lastChar)]_vars

(* write("a"), then write(""), then writeOnNewLine("a"): one newline was   *)
(* emitted between the two strings                                         *)
C26_Witness ==
    /\ call.fn = "writeOnNewLine"
    /\ call.calls = 3
    /\ call.str = <<"a">>
    /\ stdout = <<"a", "\n", "a">>
    /\ lastChar = "a"

====
